---- MODULE Spec2Model ----
(***************************************************************************)
(* State-machine model of the authentication and credential subsystem of   *)
(* goldenpath-api: API-key issuance, verification, revocation and          *)
(* deletion (api/repositories.py), the API-key and Cognito-JWT             *)
(* authentication dependencies (api/auth.py), the process-wide JWKS cache, *)
(* and user registration (api/routers/users.py).                           *)
(*                                                                         *)
(* Strings that the code takes apart (e-mail addresses, namespaces, API    *)
(* keys) are sequences of one-character strings.  Random values            *)
(* (secrets.token_urlsafe) are drawn fresh: a 256-bit token never repeats. *)
(***************************************************************************)
EXTENDS Integers, Sequences, FiniteSets, TLC

\* ------------------------------------------------------------------ bounds
\* Number of API keys ever created (key_id is drawn from 1..MaxKeys).
MaxKeys == 2
\* Last instant of the clock, in days.
MaxTime == 91
\* Days the clock advances in one Tick.
TickDays == 91
\* Number of JWKS fetches ever issued.
MaxFetches == 3
\* Leading elements of the plaintext kept in key_prefix (api_key[:16] keeps
\* "gp_live_", one element here, and the first characters of the random tail).
PrefixLen == 2

\* --------------------------------------------------------- program constants
\* APIKeyRepository.create: expires_days default, never overridden by a caller.
ExpiresDays == 90

\* Python's None: an optional value is a set of at most one element.
None == {}
Some(x) == {x}
The(o) == CHOOSE x \in o : TRUE

\* What the last one-shot operation handed back: the operation and the ids it
\* was called with, the HTTP status (0 for a repository call, which has none)
\* and the value the repository call behind it returned.  Response bodies are
\* functions of the state and are given by the ...Response operators.
Resp(op, key_id, user_id, status, returned) ==
    [op |-> op, key_id |-> key_id, user_id |-> user_id,
     status |-> status, returned |-> returned]

\* ------------------------------------------------------------ input domains
UserIds == {<<"u">>, <<"a">>}
Emails == {[local |-> <<"a">>, domain |-> "x.com"],
           [local |-> <<"A", ".">>, domain |-> "y.com"]}
\* The registrations the key-management specification draws from.
Accounts == {<<<<"u">>, [local |-> <<"a">>, domain |-> "x.com"]>>,
             <<<<"a">>, [local |-> <<"A", ".">>, domain |-> "y.com"]>>}
Providers == {"email"}
KeyNames == {<<"Default API Key">>}
\* The values successive calls of secrets.token_urlsafe(32) return; the first
\* two agree on their leading characters.
TokenStream == <<<<"p", "q", "r">>, <<"p", "q", "s">>, <<"t", "q", "r">>>>
Salts == {"s1"}

\* ---------------------------------------------------------------- strings
Lower(c) == IF c = "A" THEN "a" ELSE IF c = "B" THEN "b" ELSE c

RECURSIVE LowerStr(_)
LowerStr(s) == IF s = <<>> THEN <<>> ELSE <<Lower(Head(s))>> \o LowerStr(Tail(s))

\* str.replace(ch, "")
RECURSIVE Remove(_, _)
Remove(s, ch) ==
    IF s = <<>> THEN <<>>
    ELSE IF Head(s) = ch THEN Remove(Tail(s), ch)
    ELSE <<Head(s)>> \o Remove(Tail(s), ch)

Digit(d) == CASE d = 0 -> "0" [] d = 1 -> "1" [] d = 2 -> "2" [] d = 3 -> "3"
              [] d = 4 -> "4" [] d = 5 -> "5" [] d = 6 -> "6" [] d = 7 -> "7"
              [] d = 8 -> "8" [] d = 9 -> "9"

\* str(n) for n >= 0, as f"{counter}" formats it
RECURSIVE IntToStr(_)
IntToStr(n) == IF n < 10 THEN <<Digit(n)>> ELSE IntToStr(n \div 10) \o <<Digit(n % 10)>>

\* s[:n]
Take(s, n) == SubSeq(s, 1, IF n < Len(s) THEN n ELSE Len(s))

\* routers/users.py generate_namespace_from_email
generate_namespace_from_email(email) ==
    <<"@">> \o LowerStr(Remove(Remove(Remove(email.local, "."), "_"), "-"))

\* ----------------------------------------------------------------- bcrypt
\* bcrypt.hashpw(password, salt): the digest carries its salt; the digest
\* proper is an opaque value determined by (salt, password).
hashpw(password, salt) == [alg |-> "2b", salt |-> salt, digest |-> <<salt, password>>]

\* A digest bcrypt can parse.
WellFormed(h) == h.alg = "2b"

\* Mutant of checkpw: compares only the leading characters of the password.
checkpwPrefix(password, hashed) ==
    IF ~WellFormed(hashed) THEN "error"
    ELSE IF Take(password, 2) = Take(hashed.digest[2], 2) THEN "match" ELSE "nomatch"

\* bcrypt.checkpw(password, hashed): re-hashes the password with the salt of
\* the stored digest and compares; raises ValueError on a digest it cannot
\* parse.
checkpw(password, hashed) ==
    IF ~WellFormed(hashed) THEN "error"
    ELSE IF hashpw(password, hashed.salt) = hashed THEN "match" ELSE "nomatch"

\* ------------------------------------------------------------------- state
VARIABLES
    users,      \* table users: set of rows
    api_keys,   \* table api_keys: set of rows
    now,        \* the clock, in days
    plain,      \* history: plain[i] is the plaintext returned for key_id i
    revoked,    \* history: key_ids for which deactivate returned True
    resp,       \* what the last one-shot operation returned to its caller
    req,        \* in-flight API-key authentications (get_current_user_from_api_key)
    _cognito_keys_cache,  \* auth.py module global
    jwks,       \* the key ids the identity provider currently publishes
    fetches,    \* history of the JWKS fetches: how many were issued, how the
                \* last one ended, whether a request that had been waiting
                \* during an earlier fetch issued one of its own
    jreq,       \* in-flight token authentications (get_current_user_from_jwt)
    reg,        \* in-flight registrations (register_user run step by step)
    bucket      \* the objects of the registry's S3 bucket

dbvars == <<users, api_keys>>
histvars == <<plain, revoked>>
jwtvars == <<_cognito_keys_cache, jwks, fetches, jreq>>
vars == <<users, api_keys, now, plain, revoked, resp, req,
          _cognito_keys_cache, jwks, fetches, jreq, reg, bucket>>

Reqs == {"r1"}
JReqs == {"j1", "j2"}
Regs == {"g1", "g2"}
KeyIds == 1..MaxKeys

\* ------------------------------------------------------------ table lookups
\* Mutant of get_by_email: the lookup finds nothing.
get_by_email_none(email) == {}

\* UserRepository.get_by_id / get_by_email / get_by_namespace (scalar_one_or_none)
get_by_id(user_id) == {u \in users : u.user_id = user_id}
get_by_email(email) == {u \in users : u.email = email}
get_by_namespace(namespace) == {u \in users : u.namespace = namespace}

\* APIKeyRepository.get_by_id
key_by_id(key_id) == {k \in api_keys : k.key_id = key_id}

\* Mutant of UniqueViolation: the table has no unique constraints.
NoUniqueViolation(row) == FALSE

\* models.py User: user_id is the primary key, email and namespace are unique.
\* An INSERT of row raises IntegrityError when one of them is taken.
UniqueViolation(row) ==
    \E u \in users : \/ u.user_id = row.user_id
                     \/ u.email = row.email
                     \/ u.namespace = row.namespace

\* Mutant of NewestFirst: the order is ascending.
OldestFirst(S) ==
    {s \in [1..Cardinality(S) -> S] :
        /\ \A i, j \in 1..Cardinality(S) : i # j => s[i] # s[j]
        /\ \A i, j \in 1..Cardinality(S) : i < j => s[i].created_at <= s[j].created_at}

\* All orderings of a finite set of key rows, newest first (created_at DESC);
\* rows with equal created_at come in either order.
NewestFirst(S) ==
    {s \in [1..Cardinality(S) -> S] :
        /\ \A i, j \in 1..Cardinality(S) : i # j => s[i] # s[j]
        /\ \A i, j \in 1..Cardinality(S) : i < j => s[i].created_at >= s[j].created_at}

\* APIKeyRepository.list_by_user
list_by_user(user_id) == NewestFirst({k \in api_keys : k.user_id = user_id})

\* ------------------------------------------------------- API key issuance
\* Mutant of KeyPrefix: no truncation.
KeyPrefixWhole(api_key) == api_key \o <<"...">>

\* api_key[:16] + "..."
KeyPrefix(api_key) == Take(api_key, PrefixLen) \o <<"...">>

\* APIKeyRepository.create: the plaintext and the row it persists.  tail and
\* salt are the random draws; key_id is the next unused identifier.
APIKeyRepository_create(user_id, name, scopes, tail, salt) ==
    LET api_key == <<"gp_live_">> \o tail
        key_record == [key_id     |-> Len(plain) + 1,
                       user_id    |-> user_id,
                       name       |-> name,
                       key_hash   |-> hashpw(api_key, salt),
                       key_prefix |-> KeyPrefix(api_key),
                       scopes     |-> IF scopes = None THEN <<"read", "write">>
                                      ELSE The(scopes),
                       created_at |-> now,
                       last_used  |-> None,
                       expires_at |-> Some(now + ExpiresDays),
                       is_active  |-> TRUE]
    IN  [api_key |-> api_key, key_record |-> key_record]

\* The next draw of secrets.token_urlsafe(32): a 256-bit random token does not
\* repeat, so the draws are pairwise distinct and are taken in stream order.
FreshTails == IF Len(plain) < Len(TokenStream) THEN {TokenStream[Len(plain) + 1]} ELSE {}

\* schemas.py APIKeyResponse.model_validate(key): the fields that leave
APIKeyResponse(k) ==
    [key_id |-> k.key_id, user_id |-> k.user_id, name |-> k.name,
     key_prefix |-> k.key_prefix, scopes |-> k.scopes, created_at |-> k.created_at,
     last_used |-> k.last_used, expires_at |-> k.expires_at, is_active |-> k.is_active]

\* schemas.py APIKeyCreateResponse as create_api_key fills it
APIKeyCreateResponse(api_key, key_record) ==
    [key_id |-> key_record.key_id, name |-> key_record.name, api_key |-> api_key,
     key_prefix |-> key_record.key_prefix, scopes |-> key_record.scopes,
     created_at |-> key_record.created_at]

\* routers/api_keys.py create_api_key, after authentication returned current_user
CreateApiKey(current_user, name, scopes) ==
    /\ current_user \in users
    /\ IF ~current_user.email_verified
       THEN /\ resp' = Resp("create_api_key", 0, current_user.user_id, 403, FALSE)
            /\ UNCHANGED <<api_keys, plain>>
       ELSE /\ Len(plain) < MaxKeys
            /\ \E tail \in FreshTails, salt \in Salts :
                 LET c == APIKeyRepository_create(current_user.user_id, name, scopes, tail, salt)
                 IN  /\ api_keys' = api_keys \cup {c.key_record}
                     /\ plain' = Append(plain, APIKeyCreateResponse(c.api_key, c.key_record).api_key)
                     /\ resp' = Resp("create_api_key", c.key_record.key_id,
                                     current_user.user_id, 201, TRUE)
    /\ UNCHANGED <<users, now, bucket, revoked, req, jwtvars, reg>>

\* The bodies list_api_keys may return for current_user in the current state
APIKeyListResponse(current_user) ==
    {[api_keys |-> [i \in 1..Len(keys) |-> APIKeyResponse(keys[i])], total |-> Len(keys)] :
        keys \in list_by_user(current_user.user_id)}

\* routers/api_keys.py list_api_keys, after authentication returned current_user
ListApiKeys(current_user) ==
    /\ current_user \in users
    /\ resp' = Resp("list_api_keys", 0, current_user.user_id, 200, TRUE)
    /\ UNCHANGED <<users, api_keys, now, bucket, plain, revoked, req, jwtvars, reg>>

\* APIKeyRepository.delete: the rows DELETE ... WHERE key_id AND user_id removes
delete_rows(key_id, user_id) ==
    {k \in api_keys : k.key_id = key_id /\ k.user_id = user_id}

\* routers/api_keys.py delete_api_key, after authentication returned current_user
DeleteApiKey(key_id, current_user) ==
    /\ current_user \in users
    /\ LET gone == delete_rows(key_id, current_user.user_id)
           deleted == Cardinality(gone) > 0
       IN  /\ api_keys' = api_keys \ gone
           /\ resp' = Resp("delete_api_key", key_id, current_user.user_id,
                           IF deleted THEN 204 ELSE 404, deleted)
    /\ UNCHANGED <<users, now, bucket, plain, revoked, req, jwtvars, reg>>

\* Mutant of deactivate_rows: the ownership condition is missing.
deactivate_any(key_id, user_id) == {k \in api_keys : k.key_id = key_id}

\* APIKeyRepository.deactivate: the rows UPDATE ... WHERE key_id AND user_id touches
deactivate_rows(key_id, user_id) ==
    {k \in api_keys : k.key_id = key_id /\ k.user_id = user_id}

\* APIKeyRepository.deactivate(key_id, user_id)
Deactivate(key_id, user_id) ==
    /\ LET hit == deactivate_rows(key_id, user_id)
           result == Cardinality(hit) > 0
       IN  /\ api_keys' = (api_keys \ hit) \cup {[k EXCEPT !.is_active = FALSE] : k \in hit}
           /\ revoked' = IF result THEN revoked \cup {key_id} ELSE revoked
           /\ resp' = Resp("deactivate", key_id, user_id, 0, result)
    /\ UNCHANGED <<users, now, bucket, plain, req, jwtvars, reg>>

\* The clock advances.
Tick ==
    /\ now + TickDays <= MaxTime
    /\ now' = now + TickDays
    /\ UNCHANGED <<users, api_keys, plain, revoked, resp, req, jwtvars, reg, bucket>>

\* ------------------------------------------------------------ registration
\* Mutant of NextCandidate: the suffix starts at 2.
NextCandidateFromTwo(base_namespace, counter) == base_namespace \o IntToStr(counter + 1)

\* Mutant of NextCandidate: the suffix is not taken from the counter.
NextCandidateStuck(base_namespace, counter) == base_namespace \o <<"1">>

\* f"{base_namespace}{counter}"
NextCandidate(base_namespace, counter) == base_namespace \o IntToStr(counter)

\* routers/users.py register_user: the "ensure namespace is unique" loop
RECURSIVE UniqueNamespace(_, _, _)
UniqueNamespace(base_namespace, namespace, counter) ==
    IF get_by_namespace(namespace) # None
    THEN UniqueNamespace(base_namespace, NextCandidate(base_namespace, counter), counter + 1)
    ELSE namespace

\* UserRepository.create: the row it inserts.  The table is a multiset of
\* rows: copy counts the rows already there that agree with the new one in
\* every column (none, as long as the unique constraints are enforced).
UserRow(user_id, email, namespace, auth_provider, email_verified, name) ==
    [user_id |-> user_id, email |-> email, email_verified |-> email_verified,
     name |-> name, namespace |-> namespace, auth_provider |-> auth_provider,
     copy |-> Cardinality({u \in users :
                 /\ u.user_id = user_id /\ u.email = email
                 /\ u.email_verified = email_verified /\ u.name = name
                 /\ u.namespace = namespace /\ u.auth_provider = auth_provider})]

\* schemas.py UserRegisterResponse
UserRegisterResponse(u, default_api_key, message) ==
    [user_id |-> u.user_id, email |-> u.email, email_verified |-> u.email_verified,
     namespace |-> u.namespace, auth_provider |-> u.auth_provider,
     default_api_key |-> default_api_key, message |-> message]

\* The bodies register_user may return for a user_id that is already registered
AlreadyRegisteredResponse(existing_user) ==
    {UserRegisterResponse(existing_user,
                          IF Len(keys) > 0 THEN Some(keys[1].key_prefix) ELSE None,
                          "User already registered") :
        keys \in list_by_user(existing_user.user_id)}

\* routers/users.py register_user
Register(user_id, email, email_verified, auth_provider) ==
    /\ LET existing_user == get_by_id(user_id)
           existing_email == get_by_email(email)
           base_namespace == generate_namespace_from_email(email)
           namespace == UniqueNamespace(base_namespace, base_namespace, 1)
           user == UserRow(user_id, email, namespace, auth_provider, email_verified, None)
       IN  IF existing_user # None
           THEN /\ resp' = Resp("register_user", 0, user_id, 201, TRUE)
                /\ UNCHANGED <<users, api_keys, plain>>
           ELSE IF existing_email # None
           THEN /\ resp' = Resp("register_user", 0, user_id, 400, FALSE)
                /\ UNCHANGED <<users, api_keys, plain>>
           ELSE /\ users' = users \cup {user}
                /\ IF email_verified
                   THEN /\ Len(plain) < MaxKeys
                        /\ \E tail \in FreshTails, salt \in Salts :
                             LET c == APIKeyRepository_create(user.user_id,
                                        <<"Default API Key">>, Some(<<"read", "write">>),
                                        tail, salt)
                             IN  /\ api_keys' = api_keys \cup {c.key_record}
                                 /\ plain' = Append(plain,
                                      The(UserRegisterResponse(user, Some(c.api_key), "").default_api_key))
                                 /\ resp' = Resp("register_user", c.key_record.key_id,
                                                 user_id, 201, TRUE)
                   ELSE /\ resp' = Resp("register_user", 0, user_id, 201, TRUE)
                        /\ UNCHANGED <<api_keys, plain>>
    /\ UNCHANGED <<now, bucket, revoked, req, jwtvars, reg>>

\* ------------------------------------------------- API-key authentication
\* An Authorization header value: None, or a string, of which the model keeps
\* whether it is "" and what str.split() makes of it.
Header(empty, parts) == Some([empty |-> empty, parts |-> parts])

\* Credentials a caller may present: every plaintext issued so far, and
\* strings that were never issued.
Presentable ==
    {plain[i] : i \in 1..Len(plain)} \cup {<<"gp_live_", "z", "z", "z">>}

Schemes == {"Bearer", "bearer", "Basic"}

\* str.lower() of a scheme word
SchemeLower(w) == IF w = "Bearer" THEN "bearer" ELSE w

AuthHeaders ==
    {None, Header(TRUE, <<>>), Header(FALSE, <<>>), Header(FALSE, <<"Bearer">>)}
      \cup {Header(FALSE, <<w, c>>) : w \in Schemes, c \in Presentable}
      \cup {Header(FALSE, <<"Bearer", c, c>>) : c \in Presentable}

\* Mutant of Missing: only an absent header counts as missing.
MissingNone(authorization) == authorization = None

\* `not authorization`
Missing(authorization) == authorization = None \/ The(authorization).empty

\* len(parts) != 2 or parts[0].lower() != "bearer"
Malformed(parts) == Len(parts) # 2 \/ SchemeLower(parts[1]) # "bearer"

Out(status, detail, user) == [status |-> status, detail |-> detail, user |-> user]

\* A request's locals.  dep is the dependency the endpoint declares, which
\* calls get_current_user_from_api_key; verified is how verify_key ended ("no"
\* until it has: "record", "none", or the exception it raised); seen_revoked
\* is history: the keys already revoked when it scanned;
\* fault is history: "persistence" when the database failed under it.
IdleReq == [pc |-> "idle", dep |-> "get_current_user_from_api_key", api_key |-> <<>>,
            keys |-> {}, seen_revoked |-> {},
            verified |-> "no", key_record |-> None, fault |-> "none", out |-> None]

\* get_current_user_from_api_key, lines 24-38: the header checks, for the
\* request whose locals are q
HeaderChecked(q, authorization) ==
    IF Missing(authorization)
    THEN [q EXCEPT !.pc = "done",
                   !.out = Some(Out(401, "Missing Authorization header", None))]
    ELSE IF Malformed(The(authorization).parts)
    THEN [q EXCEPT !.pc = "done",
                   !.out = Some(Out(401, "Invalid Authorization header format", None))]
    ELSE [q EXCEPT !.pc = "scan", !.api_key = The(authorization).parts[2]]

\* get_current_user_from_api_key is called as an endpoint's dependency
AuthStart(r, authorization) ==
    /\ req[r].pc = "idle"
    /\ req' = [req EXCEPT ![r] = HeaderChecked(@, authorization)]
    /\ UNCHANGED <<users, api_keys, now, bucket, plain, revoked, resp, jwtvars, reg>>

\* APIKeyRepository.verify_key, lines 239-242: SELECT ... WHERE is_active.
\* Of each row read, the loop uses key_id, key_hash and expires_at.
Scanned(k) == [key_id |-> k.key_id, key_hash |-> k.key_hash, expires_at |-> k.expires_at]

\* Mutant of ActiveKeys: the scan forgets the is_active filter.
AllKeys == {Scanned(k) : k \in api_keys}

ActiveKeys == {Scanned(k) : k \in {a \in api_keys : a.is_active}}

VerifyScan(r) ==
    /\ req[r].pc = "scan"
    /\ req' = [req EXCEPT ![r] = [@ EXCEPT !.pc = "check", !.keys = ActiveKeys,
                                             !.seen_revoked = revoked]]
    /\ UNCHANGED <<users, api_keys, now, bucket, plain, revoked, resp, jwtvars, reg>>

\* Mutant of Expired: the expiry check is missing.
ExpiredNever(key_record, t) == FALSE

\* key_record.expires_at and key_record.expires_at < now
Expired(key_record, t) == key_record.expires_at # None /\ The(key_record.expires_at) < t

\* Mutant of Unauthorized: an expired key gets an answer of its own.
UnauthorizedByCause(cause) ==
    IF cause = "expired" THEN Out(401, "API key expired", None)
    ELSE Out(401, "Invalid or inactive API key", None)

\* get_current_user_from_api_key, lines 43-48: verify_key returned None,
\* whatever the cause
Unauthorized(cause) == Out(401, "Invalid or inactive API key", None)

\* APIKeyRepository.verify_key, lines 245-264: the loop over the rows read by
\* the scan, in whatever order the database returned them.  The loop ends at
\* the first row whose digest matches, or with the ValueError of the first
\* digest bcrypt cannot parse.
VerifyCheck(r) ==
    /\ req[r].pc = "check"
    /\ LET keys == req[r].keys
           hits == {k \in keys : checkpw(req[r].api_key, k.key_hash) = "match"}
           bad == {k \in keys : checkpw(req[r].api_key, k.key_hash) = "error"}
           raise(error) == [req EXCEPT ![r] = [@ EXCEPT !.pc = "done", !.verified = error,
                              !.out = Some(Out(500, "Internal server error", None))]]
           none(cause) == [req EXCEPT ![r] = [@ EXCEPT !.pc = "done", !.verified = "none",
                                !.out = Some(Unauthorized(cause))]]
       IN  \/ /\ bad # {}
              /\ req' = raise("ValueError")
              /\ UNCHANGED api_keys
           \/ /\ hits = {} /\ bad = {}
              /\ req' = none("nomatch")
              /\ UNCHANGED api_keys
           \/ \E key_record \in hits :
                IF Expired(key_record, now)
                THEN /\ req' = none("expired")
                     /\ UNCHANGED api_keys
                ELSE LET row == key_by_id(key_record.key_id)
                         used == [The(row) EXCEPT !.last_used = Some(now)]
                     IN  IF row = None
                         THEN \* the row is gone: UPDATE touches nothing, refresh raises
                              /\ req' = raise("InvalidRequestError")
                              /\ UNCHANGED api_keys
                         ELSE /\ api_keys' = (api_keys \ row) \cup {used}
                              /\ req' = [req EXCEPT ![r] = [@ EXCEPT !.pc = "user",
                                            !.verified = "record", !.key_record = Some(used)]]
    /\ UNCHANGED <<users, now, bucket, plain, revoked, resp, jwtvars, reg>>

\* get_current_user_from_api_key, lines 50-60: the owner of the key
GetUser(r) ==
    /\ req[r].pc = "user"
    /\ LET user == get_by_id(The(req[r].key_record).user_id)
       IN  req' = [req EXCEPT ![r] = [@ EXCEPT !.pc = "done",
                     !.out = IF user = None THEN Some(Out(401, "User not found", None))
                             ELSE Some(Out(200, "", user))]]
    /\ UNCHANGED <<users, api_keys, now, bucket, plain, revoked, resp, jwtvars, reg>>

\* The request is over; its slot serves the next one.
AuthEnd(r) ==
    /\ req[r].pc = "done"
    /\ req' = [req EXCEPT ![r] = IdleReq]
    /\ UNCHANGED <<users, api_keys, now, bucket, plain, revoked, resp, jwtvars, reg>>

\* --------------------------------------------------- token authentication
\* An identity token as jose sees it: whether it parses, the header's kid and
\* alg, the provider key that signed it ("forged" if none did), whether
\* issuer and audience are the configured ones, whether exp has passed, and
\* the cognito:username and email claims.
Token(wellformed, kid, alg, signed_by, iss_ok, aud_ok, expired, username, email) ==
    [wellformed |-> wellformed, kid |-> kid, alg |-> alg, signed_by |-> signed_by,
     iss_ok |-> iss_ok, aud_ok |-> aud_ok, expired |-> expired,
     username |-> username, email |-> email]

GoodToken(kid, username, email) ==
    Token(TRUE, Some(kid), "RS256", kid, TRUE, TRUE, FALSE, username, email)

Kids == {"k1", "k2"}
\* The key sets the provider may publish.
KeySets == {{"k1"}, {"k1", "k2"}}

\* The tokens presented to the cache-centred specification: valid ones for
\* one subject, signed with either provider key, and one of each way of being
\* invalid.
Subject == <<"u">>
SubjectEmail == [local |-> <<"a">>, domain |-> "x.com"]

Tokens ==
    {GoodToken(kid, Some(Subject), Some(SubjectEmail)) : kid \in Kids}
      \cup {GoodToken("k1", None, Some(SubjectEmail)),
            Token(FALSE, None, "RS256", "k1", TRUE, TRUE, FALSE, None, None),
            Token(TRUE, None, "RS256", "k1", TRUE, TRUE, FALSE, Some(Subject), Some(SubjectEmail)),
            Token(TRUE, Some("k1"), "none", "forged", TRUE, TRUE, FALSE,
                  Some(Subject), Some(SubjectEmail)),
            Token(TRUE, Some("k1"), "RS256", "k1", TRUE, TRUE, TRUE,
                  Some(Subject), Some(SubjectEmail))}

JwtHeaders ==
    {None, Header(FALSE, <<"Bearer">>)} \cup {Header(FALSE, <<"Bearer", t>>) : t \in Tokens}

\* Mutant of Decode: the algorithm the header declares is not checked.
DecodeAnyAlg(token, key) ==
    IF /\ token.signed_by = key
       /\ ~token.expired
       /\ token.aud_ok
       /\ token.iss_ok
    THEN "claims" ELSE "JWTError"

\* jose_jwt.decode(token, key, algorithms=['RS256'], audience, issuer): the
\* header's alg must be an allowed one, the signature must verify under key,
\* and exp, aud and iss must hold; anything else raises JWTError.
Decode(token, key) ==
    IF /\ token.alg = "RS256"
       /\ token.signed_by = key
       /\ ~token.expired
       /\ token.aud_ok
       /\ token.iss_ok
    THEN "claims" ELSE "JWTError"

\* Outcomes of requests.get(COGNITO_JWKS_URL, timeout=5) + raise_for_status
FetchOutcomes == {"ok", "error", "timeout"}

\* Mutant of CacheAfterFetch: a failed fetch leaves an empty key set behind.
CacheEmptyOnFailure(outcome, published) ==
    IF outcome = "ok" THEN Some(published) ELSE Some({})

\* get_cognito_public_keys, lines 125-134: the cache after a fetch
CacheAfterFetch(outcome, published) ==
    IF outcome = "ok" THEN Some(published) ELSE _cognito_keys_cache

\* email or f"{cognito_username}@unknown.local"
EmailOr(email, cognito_username) ==
    IF email # None THEN The(email)
    ELSE [local |-> cognito_username, domain |-> "unknown.local"]

\* A token authentication's locals.  fault is history: "provider" when the
\* JWKS fetch failed for it, "persistence" when the database did.  joined is
\* history: the request was waiting to run while another one fetched.
IdleJReq == [pc |-> "idle", authorization |-> None, cognito_username |-> <<>>,
             email |-> [local |-> <<>>, domain |-> ""], fault |-> "none",
             joined |-> FALSE, out |-> None]

\* A request arrives; its dependency get_current_user_from_jwt is scheduled on
\* the event loop.
JwtArrive(j, authorization) ==
    /\ jreq[j].pc = "idle"
    /\ jreq' = [jreq EXCEPT ![j] = [@ EXCEPT !.pc = "called", !.authorization = authorization]]
    /\ UNCHANGED <<users, api_keys, now, bucket, plain, revoked, resp, req, reg,
                   _cognito_keys_cache, jwks, fetches>>

JFail(q, status, detail) ==
    [q EXCEPT !.pc = "done", !.out = Some(Out(status, detail, None))]

\* get_current_user_from_jwt, lines 147-218: everything up to the first await.
\* It runs without yielding the event loop, the blocking JWKS fetch of
\* get_cognito_public_keys included, so no other request runs meanwhile.
\* Every exception raised inside the try block, the HTTPException(503) of
\* get_cognito_public_keys among them, leaves as a 401.
JwtVerify(j) ==
    /\ jreq[j].pc = "called"
    /\ LET authorization == jreq[j].authorization
           cold == _cognito_keys_cache = None
           others == {o \in JReqs \ {j} : jreq[o].pc = "called"}
       IN
       IF Missing(authorization)
       THEN /\ jreq' = [jreq EXCEPT ![j] = JFail(@, 401, "Missing Authorization header")]
            /\ UNCHANGED <<_cognito_keys_cache, fetches>>
       ELSE IF Malformed(The(authorization).parts)
       THEN /\ jreq' = [jreq EXCEPT ![j] = JFail(@, 401, "Invalid Authorization header format")]
            /\ UNCHANGED <<_cognito_keys_cache, fetches>>
       ELSE
         \E outcome \in (IF cold THEN FetchOutcomes ELSE {"cached"}) :
           LET token == The(authorization).parts[2]
               cache == IF cold THEN CacheAfterFetch(outcome, jwks) ELSE _cognito_keys_cache
               keys == The(cache)
               cognito_username == The(token.username)
               result ==
                 IF cold /\ outcome # "ok"
                   THEN [jreq[j] EXCEPT !.pc = "done", !.fault = "provider",
                           !.out = Some(Out(401, "Authentication failed", None))]
                 ELSE IF ~token.wellformed
                   THEN JFail(jreq[j], 401, "Invalid token")
                 ELSE IF token.kid = None
                   THEN JFail(jreq[j], 401, "Authentication failed")
                 ELSE IF The(token.kid) \notin keys
                   THEN JFail(jreq[j], 401, "Authentication failed")
                 ELSE IF Decode(token, The(token.kid)) = "JWTError"
                   THEN JFail(jreq[j], 401, "Invalid token")
                 ELSE IF token.username = None
                   THEN JFail(jreq[j], 401, "Authentication failed")
                 ELSE [jreq[j] EXCEPT !.pc = "lookup",
                         !.cognito_username = cognito_username,
                         !.email = EmailOr(token.email, cognito_username)]
           IN  /\ cold => fetches.issued < MaxFetches
               /\ _cognito_keys_cache' = cache
               /\ fetches' = IF cold
                             THEN [issued |-> fetches.issued + 1, last |-> outcome,
                                   by_joiner |-> fetches.by_joiner \/ jreq[j].joined]
                             ELSE fetches
               /\ jreq' = [o \in JReqs |->
                             IF o = j THEN result
                             ELSE IF cold /\ o \in others
                                  THEN [jreq[o] EXCEPT !.joined = TRUE]
                                  ELSE jreq[o]]
    /\ UNCHANGED <<users, api_keys, now, bucket, plain, revoked, resp, req, reg, jwks>>

\* get_current_user_from_jwt, lines 221-237: user_repo.get_by_cognito_username
JwtLookup(j) ==
    /\ jreq[j].pc = "lookup"
    /\ LET user == get_by_id(jreq[j].cognito_username)
       IN  jreq' = [jreq EXCEPT ![j] =
                      IF user # None
                      THEN [@ EXCEPT !.pc = "done", !.out = Some(Out(200, "", user))]
                      ELSE [@ EXCEPT !.pc = "provision"]]
    /\ UNCHANGED <<users, api_keys, now, bucket, plain, revoked, resp, req, reg,
                   _cognito_keys_cache, jwks, fetches>>

\* UserRepository.create_from_cognito, lines 91-94: get_by_email
JwtGetByEmail(j) ==
    /\ jreq[j].pc = "provision"
    /\ jreq' = [jreq EXCEPT ![j] =
                  [@ EXCEPT !.pc = IF get_by_email(jreq[j].email) # None
                                   THEN "link" ELSE "insert"]]
    /\ UNCHANGED <<users, api_keys, now, bucket, plain, revoked, resp, req, reg,
                   _cognito_keys_cache, jwks, fetches>>

\* UserRepository.create_from_cognito, lines 97-107: UPDATE users SET user_id,
\* email_verified WHERE email.  The primary key and the foreign key
\* api_keys.user_id -> users.user_id (no ON UPDATE action) are enforced by the
\* database; the IntegrityError leaves get_current_user_from_jwt as a 401.
JwtLink(j) ==
    /\ jreq[j].pc = "link"
    /\ LET q == jreq[j]
           rows == get_by_email(q.email)
           linked == {[u EXCEPT !.user_id = q.cognito_username, !.email_verified = TRUE] :
                        u \in rows}
           pk_taken == \E u \in users \ rows : u.user_id = q.cognito_username
           fk_held == \E u \in rows : /\ u.user_id # q.cognito_username
                                      /\ \E k \in api_keys : k.user_id = u.user_id
           after == (users \ rows) \cup linked
           user == {u \in after : u.user_id = q.cognito_username}
       IN  IF pk_taken \/ fk_held
           THEN /\ jreq' = [jreq EXCEPT ![j] = JFail(@, 401, "Authentication failed")]
                /\ UNCHANGED users
           ELSE IF user = None
           THEN /\ jreq' = [jreq EXCEPT ![j] = JFail(@, 401, "Authentication failed")]
                /\ users' = after
           ELSE /\ jreq' = [jreq EXCEPT ![j] =
                              [@ EXCEPT !.pc = "done", !.out = Some(Out(200, "", user))]]
                /\ users' = after
    /\ UNCHANGED <<api_keys, now, bucket, plain, revoked, resp, req, reg,
                   _cognito_keys_cache, jwks, fetches>>

\* UserRepository.create_from_cognito, lines 110-116: UserRepository.create.
\* user_id, email and namespace are unique in the database; the
\* IntegrityError leaves get_current_user_from_jwt as a 401.
JwtInsert(j) ==
    /\ jreq[j].pc = "insert"
    /\ LET q == jreq[j]
           user == UserRow(q.cognito_username, q.email, <<"@">> \o q.cognito_username,
                           "cognito", TRUE, None)
           clash == UniqueViolation(user)
       IN  IF clash
           THEN /\ jreq' = [jreq EXCEPT ![j] = JFail(@, 401, "Authentication failed")]
                /\ UNCHANGED users
           ELSE /\ users' = users \cup {user}
                /\ jreq' = [jreq EXCEPT ![j] =
                              [@ EXCEPT !.pc = "done", !.out = Some(Out(200, "", Some(user)))]]
    /\ UNCHANGED <<api_keys, now, bucket, plain, revoked, resp, req, reg,
                   _cognito_keys_cache, jwks, fetches>>

\* The request is over; its slot serves the next one.
JwtEnd(j) ==
    /\ jreq[j].pc = "done"
    /\ jreq' = [jreq EXCEPT ![j] = IdleJReq]
    /\ UNCHANGED <<users, api_keys, now, bucket, plain, revoked, resp, req, reg,
                   _cognito_keys_cache, jwks, fetches>>

\* The identity provider rotates its signing keys.
Rotate ==
    /\ \E published \in KeySets \ {jwks} : jwks' = published
    /\ UNCHANGED <<users, api_keys, now, bucket, plain, revoked, resp, req, reg,
                   _cognito_keys_cache, fetches, jreq>>

\* ------------------------------------------- registration, await by await
\* register_user yields the event loop at every await, so that other requests
\* run between its queries.  A request body as UserRegisterRequest holds it.
UserRegisterRequest(user_id, email, email_verified, auth_provider) ==
    [user_id |-> user_id, email |-> email, email_verified |-> email_verified,
     auth_provider |-> auth_provider]

\* A registration's locals.
IdleReg == [pc |-> "idle", request |-> None, base_namespace |-> <<>>,
            namespace |-> <<>>, counter |-> 0, out |-> None]

RegDone(q, status, detail, user) ==
    [q EXCEPT !.pc = "done", !.out = Some(Out(status, detail, user))]

\* register_user, lines 42-57: get_by_id; a known user_id gets its data back
RegStart(g, request) ==
    /\ reg[g].pc = "idle"
    /\ LET existing_user == get_by_id(request.user_id)
       IN  reg' = [reg EXCEPT ![g] =
                     IF existing_user # None
                     THEN RegDone([@ EXCEPT !.request = Some(request)], 201,
                                  "User already registered", existing_user)
                     ELSE [@ EXCEPT !.pc = "email", !.request = Some(request)]]
    /\ UNCHANGED <<users, api_keys, now, bucket, plain, revoked, resp, req, jwtvars>>

\* register_user, lines 59-71: get_by_email, then the first candidate
RegGetByEmail(g) ==
    /\ reg[g].pc = "email"
    /\ LET request == The(reg[g].request)
           existing_email == get_by_email(request.email)
           base_namespace == generate_namespace_from_email(request.email)
       IN  reg' = [reg EXCEPT ![g] =
                     IF existing_email # None
                     THEN RegDone(@, 400, "Email already in use", None)
                     ELSE [@ EXCEPT !.pc = "scan", !.base_namespace = base_namespace,
                                    !.namespace = base_namespace, !.counter = 1]]
    /\ UNCHANGED <<users, api_keys, now, bucket, plain, revoked, resp, req, jwtvars>>

\* register_user, lines 73-75: one evaluation of the loop condition
\* `while await user_repo.get_by_namespace(namespace)` and, if it holds, of
\* the loop body
RegScan(g) ==
    /\ reg[g].pc = "scan"
    /\ reg' = [reg EXCEPT ![g] =
                 IF get_by_namespace(reg[g].namespace) # None
                 THEN [@ EXCEPT !.namespace = NextCandidate(reg[g].base_namespace,
                                                            reg[g].counter),
                                !.counter = reg[g].counter + 1]
                 ELSE [@ EXCEPT !.pc = "create"]]
    /\ UNCHANGED <<users, api_keys, now, bucket, plain, revoked, resp, req, jwtvars>>

\* register_user, lines 77-85: UserRepository.create.  Nothing catches the
\* IntegrityError of a lost race; main.py's handler answers 500.
RegCreate(g) ==
    /\ reg[g].pc = "create"
    /\ LET request == The(reg[g].request)
           user == UserRow(request.user_id, request.email, reg[g].namespace,
                           request.auth_provider, request.email_verified, None)
       IN  IF UniqueViolation(user)
           THEN /\ reg' = [reg EXCEPT ![g] = RegDone(@, 500, "Internal server error", None)]
                /\ UNCHANGED users
           ELSE /\ users' = users \cup {user}
                /\ reg' = [reg EXCEPT ![g] =
                             IF request.email_verified
                             THEN [@ EXCEPT !.pc = "key"]
                             ELSE RegDone(@, 201,
                                    "Please verify your email to enable API access",
                                    Some(user))]
    /\ UNCHANGED <<api_keys, now, bucket, plain, revoked, resp, req, jwtvars>>

\* register_user, lines 87-110: the default API key.  api_keys.user_id
\* references users.user_id: the INSERT raises IntegrityError when the account
\* row no longer carries the user_id it was created with.
RegKey(g) ==
    /\ reg[g].pc = "key"
    /\ LET request == The(reg[g].request)
           user == get_by_id(request.user_id)
       IN  IF user = None
           THEN /\ reg' = [reg EXCEPT ![g] = RegDone(@, 500, "Internal server error", None)]
                /\ UNCHANGED <<api_keys, plain>>
           ELSE /\ Len(plain) < MaxKeys
                /\ \E tail \in FreshTails, salt \in Salts :
                     LET c == APIKeyRepository_create(request.user_id, <<"Default API Key">>,
                                                      Some(<<"read", "write">>), tail, salt)
                     IN  /\ api_keys' = api_keys \cup {c.key_record}
                         /\ plain' = Append(plain, c.api_key)
                         /\ reg' = [reg EXCEPT ![g] = RegDone(@, 201, "", user)]
    /\ UNCHANGED <<users, now, bucket, revoked, resp, req, jwtvars>>

\* The request is over; its slot serves the next one.
RegEnd(g) ==
    /\ reg[g].pc = "done"
    /\ reg' = [reg EXCEPT ![g] = IdleReg]
    /\ UNCHANGED <<users, api_keys, now, bucket, plain, revoked, resp, req, jwtvars>>

\* Profile names a caller may send.
ProfileNames == {None, Some(<<"n">>)}

\* UserRepository.update behind update_current_user / update_current_user_profile,
\* after authentication returned current_user.  Of name, bio and
\* github_username the model keeps name; a request without values updates
\* nothing.
UpdateProfile(current_user, name) ==
    /\ current_user \in users
    /\ users' = IF name = None THEN users
                ELSE {IF u.user_id = current_user.user_id THEN [u EXCEPT !.name = name]
                      ELSE u : u \in users}
    /\ resp' = Resp("update_profile", 0, current_user.user_id, 200, TRUE)
    /\ UNCHANGED <<api_keys, now, bucket, plain, revoked, req, jwtvars, reg>>

\* ------------------------------------------------- the registry endpoints
\* The dependencies main.py's endpoints declare.
Dependencies == {"verify_api_key", "optional_verify_api_key"}

\* verify_api_key, line 261, and optional_verify_api_key, lines 272-276: the
\* call of get_current_user_from_api_key.  The optional variant returns None
\* for `not authorization` without making the call.
DependencyStart(r, dep, authorization) ==
    /\ req[r].pc = "idle"
    /\ req' = [req EXCEPT ![r] =
         IF dep = "optional_verify_api_key" /\ Missing(authorization)
         THEN [@ EXCEPT !.pc = "done", !.dep = dep]
         ELSE HeaderChecked([@ EXCEPT !.dep = dep], authorization)]
    /\ UNCHANGED <<users, api_keys, now, bucket, plain, revoked, resp, jwtvars, reg>>

\* What a dependency hands to FastAPI: the namespace it returns, or the
\* exception that leaves it (raises is the status the client gets, 0 when
\* nothing is raised).
Returned(namespace) == [raises |-> 0, namespace |-> namespace]
Raised(status) == [raises |-> status, namespace |-> None]

\* The HTTPExceptions get_current_user_from_api_key raises all carry
\* status_code=401; any other exception leaves it as it is and is answered by
\* main.py's global_exception_handler.
IsHTTPException(out) == out.status = 401

\* verify_api_key, lines 261-262
verify_api_key(q) ==
    LET out == The(q.out)
    IN  IF out.status = 200 THEN Returned(Some(The(out.user).namespace))
        ELSE Raised(out.status)

\* optional_verify_api_key, lines 272-279
optional_verify_api_key(q) ==
    IF q.out = None THEN Returned(None)
    ELSE LET out == The(q.out)
         IN  IF out.status = 200 THEN Returned(Some(The(out.user).namespace))
             ELSE IF IsHTTPException(out) THEN Returned(None)
             ELSE Raised(out.status)

\* registry.py: s3_key = f"{namespace}/{name}/{version}.md"
s3_key(namespace, name, version) ==
    namespace \o <<"/">> \o name \o <<"/">> \o version \o <<".", "m", "d">>

\* content.startswith(b'---')
HasFrontmatter(content) == Take(content, 3) = <<"-", "-", "-">>

\* s3.put_object(Bucket, Key, Body, Metadata): the object stored under Key
\* replaces the one that was there
put_object(Key, Body, Metadata) ==
    {o \in bucket : o.Key # Key} \cup {[Key |-> Key, Body |-> Body, Metadata |-> Metadata]}

\* s3.delete_object(Bucket, Key)
delete_object(Key) == {o \in bucket : o.Key # Key}

\* How a call of the object store ends.
S3Outcomes == {"ok", "ClientError"}

\* main.py create_golden_path with GoldenPathRegistry.create_path, once
\* verify_api_key has returned namespace.  name and version are form fields.
CreateGoldenPath(r, name, version, content, s3) ==
    /\ req[r].pc = "done"
    /\ req[r].dep = "verify_api_key"
    /\ verify_api_key(req[r]).raises = 0
    /\ LET namespace == The(verify_api_key(req[r]).namespace)
           success == HasFrontmatter(content) /\ s3 = "ok"
       IN  /\ bucket' = IF success
                        THEN put_object(s3_key(namespace, name, version), content,
                                        [namespace |-> namespace, name |-> name,
                                         version |-> version])
                        ELSE bucket
           /\ resp' = Resp("create_golden_path", 0, The(The(req[r].out).user).user_id,
                           IF success THEN 200 ELSE 400, success)
    /\ req' = [req EXCEPT ![r] = IdleReq]
    /\ UNCHANGED <<users, api_keys, now, plain, revoked, jwtvars, reg>>

\* main.py delete_golden_path with GoldenPathRegistry.delete_path, once
\* verify_api_key has returned user_namespace.  namespace and name are path
\* parameters, version is a query parameter.
DeleteGoldenPath(r, namespace, name, version, s3) ==
    /\ req[r].pc = "done"
    /\ req[r].dep = "verify_api_key"
    /\ verify_api_key(req[r]).raises = 0
    /\ LET user_namespace == The(verify_api_key(req[r]).namespace)
           user_id == The(The(req[r].out).user).user_id
       IN  IF namespace # user_namespace
           THEN /\ resp' = Resp("delete_golden_path", 0, user_id, 403, FALSE)
                /\ UNCHANGED bucket
           ELSE IF s3 = "ok"
           THEN /\ bucket' = delete_object(s3_key(namespace, name, version))
                /\ resp' = Resp("delete_golden_path", 0, user_id, 200, TRUE)
           ELSE /\ resp' = Resp("delete_golden_path", 0, user_id, 500, FALSE)
                /\ UNCHANGED bucket
    /\ req' = [req EXCEPT ![r] = IdleReq]
    /\ UNCHANGED <<users, api_keys, now, plain, revoked, jwtvars, reg>>

\* main.py fetch_golden_path with GoldenPathRegistry.fetch_path, once
\* optional_verify_api_key has returned; the caller's namespace is only logged.
FetchGoldenPath(r, namespace, name, version) ==
    /\ req[r].pc = "done"
    /\ req[r].dep = "optional_verify_api_key"
    /\ optional_verify_api_key(req[r]).raises = 0
    /\ LET found == \E o \in bucket : o.Key = s3_key(namespace, name, version)
       IN  resp' = Resp("fetch_golden_path", 0, <<>>, IF found THEN 200 ELSE 404, found)
    /\ req' = [req EXCEPT ![r] = IdleReq]
    /\ UNCHANGED <<users, api_keys, now, bucket, plain, revoked, jwtvars, reg>>

\* ----------------------------------------------------- persistence failures
\* The database fails under an await of the API-key path (the scan, the
\* last_used write, the owner lookup).  Nothing catches the exception before
\* main.py's global_exception_handler, which answers 500.
ReqDbFail(r) ==
    /\ req[r].pc \in {"scan", "check", "user"}
    /\ req' = [req EXCEPT ![r] = [@ EXCEPT !.pc = "done", !.fault = "persistence",
                  !.out = Some(Out(500, "Internal server error", None))]]
    /\ UNCHANGED <<users, api_keys, now, bucket, plain, revoked, resp, jwtvars, reg>>

\* The database fails under an await of get_current_user_from_jwt (the
\* account lookup, get_by_email, the linking UPDATE, the INSERT).  All of them
\* are inside the try block, whose `except Exception` answers 401.
JwtDbFail(j) ==
    /\ jreq[j].pc \in {"lookup", "provision", "link", "insert"}
    /\ jreq' = [jreq EXCEPT ![j] = [@ EXCEPT !.pc = "done", !.fault = "persistence",
                   !.out = Some(Out(401, "Authentication failed", None))]]
    /\ UNCHANGED <<users, api_keys, now, bucket, plain, revoked, resp, req, reg,
                   _cognito_keys_cache, jwks, fetches>>

\* ------------------------------------------------------------ specification
Init ==
    /\ users = {}
    /\ api_keys = {}
    /\ now = 0
    /\ plain = <<>>
    /\ revoked = {}
    /\ resp = Resp("none", 0, <<>>, 0, FALSE)
    /\ req = [r \in Reqs |-> IdleReq]
    /\ _cognito_keys_cache = None
    /\ jwks = {"k1"}
    /\ fetches = [issued |-> 0, last |-> "none", by_joiner |-> FALSE]
    /\ jreq = [j \in JReqs |-> IdleJReq]
    /\ reg = [g \in Regs |-> IdleReg]
    /\ bucket = {}

\* Key management and API-key authentication.
Next ==
    \/ \E a \in Accounts, v \in BOOLEAN, p \in Providers : Register(a[1], a[2], v, p)
    \/ \E u \in users, n \in KeyNames : CreateApiKey(u, n, Some(<<"read", "write">>))
    \/ \E u \in users : ListApiKeys(u)
    \/ \E k \in KeyIds, u \in users : DeleteApiKey(k, u)
    \/ \E k \in KeyIds, u \in UserIds : Deactivate(k, u)
    \/ Tick
    \/ \E r \in Reqs, h \in AuthHeaders : AuthStart(r, h)
    \/ \E r \in Reqs : VerifyScan(r)
    \/ \E r \in Reqs : VerifyCheck(r)
    \/ \E r \in Reqs : GetUser(r)
    \/ \E r \in Reqs : AuthEnd(r)

Spec == Init /\ [][Next]_vars

\* Token authentication with first-login provisioning.
NextJwt ==
    \/ \E j \in JReqs, h \in JwtHeaders : JwtArrive(j, h)
    \/ \E j \in JReqs : JwtVerify(j)
    \/ \E j \in JReqs : JwtLookup(j)
    \/ \E j \in JReqs : JwtGetByEmail(j)
    \/ \E j \in JReqs : JwtLink(j)
    \/ \E j \in JReqs : JwtInsert(j)
    \/ \E j \in JReqs : JwtEnd(j)
    \/ Rotate

SpecJwt == Init /\ [][NextJwt]_vars

\* Both authentication paths over a database that may fail: one account
\* registers and gets its default key, presents credentials on the API-key
\* path, and signs in with tokens.
NextFaults ==
    \/ \E p \in Providers : Register(Subject, SubjectEmail, TRUE, p)
    \/ \E r \in Reqs, h \in AuthHeaders : AuthStart(r, h)
    \/ \E r \in Reqs : VerifyScan(r)
    \/ \E r \in Reqs : VerifyCheck(r)
    \/ \E r \in Reqs : GetUser(r)
    \/ \E r \in Reqs : AuthEnd(r)
    \/ \E r \in Reqs : ReqDbFail(r)
    \/ \E h \in JwtHeaders : JwtArrive("j1", h)
    \/ JwtVerify("j1")
    \/ JwtLookup("j1")
    \/ JwtGetByEmail("j1")
    \/ JwtLink("j1")
    \/ JwtInsert("j1")
    \/ JwtEnd("j1")
    \/ JwtDbFail("j1")

SpecFaults == Init /\ [][NextFaults]_vars

\* A stored digest bcrypt cannot parse.
DamagedDigest == [alg |-> "??", salt |-> "", digest |-> <<>>]

\* The api_keys tables verify_key is run against when the stored digests are
\* arbitrary: of the first two keys issued to one account, each is absent,
\* stored as issued, or stored with a digest that is not a bcrypt digest (a
\* row written to the table by other means than APIKeyRepository.create).
InitDigest ==
    /\ users = {[user_id |-> Subject, email |-> SubjectEmail, email_verified |-> TRUE,
                 name |-> None, namespace |-> <<"@", "a">>, auth_provider |-> "email",
                 copy |-> 0]}
    /\ now = 0
    /\ plain = <<<<"gp_live_">> \o TokenStream[1], <<"gp_live_">> \o TokenStream[2]>>
    /\ \E damaged \in SUBSET {1, 2}, present \in SUBSET {1, 2} :
         api_keys = {[key_id     |-> i,
                      user_id    |-> Subject,
                      name       |-> <<"Default API Key">>,
                      key_hash   |-> IF i \in damaged THEN DamagedDigest
                                     ELSE hashpw(plain[i], "s1"),
                      key_prefix |-> KeyPrefix(plain[i]),
                      scopes     |-> <<"read", "write">>,
                      created_at |-> 0,
                      last_used  |-> None,
                      expires_at |-> Some(ExpiresDays),
                      is_active  |-> TRUE] : i \in present}
    /\ revoked = {}
    /\ resp = Resp("none", 0, <<>>, 0, FALSE)
    /\ req = [r \in Reqs |-> IdleReq]
    /\ _cognito_keys_cache = None
    /\ jwks = {"k1"}
    /\ fetches = [issued |-> 0, last |-> "none", by_joiner |-> FALSE]
    /\ jreq = [j \in JReqs |-> IdleJReq]
    /\ reg = [g \in Regs |-> IdleReg]
    /\ bucket = {}

NextDigest ==
    \/ \E r \in Reqs, h \in AuthHeaders : AuthStart(r, h)
    \/ \E r \in Reqs : VerifyScan(r)
    \/ \E r \in Reqs : VerifyCheck(r)
    \/ \E r \in Reqs : GetUser(r)
    \/ \E r \in Reqs : AuthEnd(r)
    \/ \E k \in KeyIds, u \in UserIds : Deactivate(k, u)
    \/ Tick

SpecDigest == InitDigest /\ [][NextDigest]_vars

\* Accounts: registrations running await by await, a token sign-in for the
\* subject (which provisions or links on first login) and profile updates.
\* The key set is in the cache.
\* The registrations: one account with the subject's e-mail address under
\* another user_id, verified (it gets a default key) or not; the subject
\* itself with that address; and the subject with an address that cleans to
\* the same namespace.
AccountRequests ==
    {UserRegisterRequest(<<"a">>, SubjectEmail, TRUE, "email"),
     UserRegisterRequest(<<"a">>, SubjectEmail, FALSE, "email"),
     UserRegisterRequest(Subject, SubjectEmail, FALSE, "email"),
     UserRegisterRequest(Subject, [local |-> <<"A", ".">>, domain |-> "y.com"], FALSE, "email")}

SubjectHeaders ==
    {Header(FALSE, <<"Bearer", GoodToken("k1", Some(Subject), Some(SubjectEmail))>>)}

NextAccounts ==
    \/ \E g \in Regs, request \in AccountRequests : RegStart(g, request)
    \/ \E g \in Regs : RegGetByEmail(g)
    \/ \E g \in Regs : RegScan(g)
    \/ \E g \in Regs : RegCreate(g)
    \/ \E g \in Regs : RegKey(g)
    \/ \E g \in Regs : RegEnd(g)
    \/ \E h \in SubjectHeaders : JwtArrive("j1", h)
    \/ JwtVerify("j1")
    \/ JwtLookup("j1")
    \/ JwtGetByEmail("j1")
    \/ JwtLink("j1")
    \/ JwtInsert("j1")
    \/ JwtEnd("j1")
    \/ \E u \in users, name \in ProfileNames : UpdateProfile(u, name)

\* The state after a first successful key-set fetch.
InitAccounts ==
    /\ users = {}
    /\ api_keys = {}
    /\ now = 0
    /\ plain = <<>>
    /\ revoked = {}
    /\ resp = Resp("none", 0, <<>>, 0, FALSE)
    /\ req = [r \in Reqs |-> IdleReq]
    /\ jwks = {"k1"}
    /\ _cognito_keys_cache = CacheAfterFetch("ok", jwks)
    /\ fetches = [issued |-> 1, last |-> "ok", by_joiner |-> FALSE]
    /\ jreq = [j \in JReqs |-> IdleJReq]
    /\ reg = [g \in Regs |-> IdleReg]
    /\ bucket = {}

SpecAccounts == InitAccounts /\ [][NextAccounts]_vars

\* Namespace generation: accounts whose e-mail addresses clean to the same
\* local part, and one whose local part is that name with the suffix 1,
\* register in any order, two at a time.
ScanRequests ==
    {UserRegisterRequest(<<"u">>, [local |-> <<"a">>, domain |-> "x.com"], FALSE, "email"),
     UserRegisterRequest(<<"a">>, [local |-> <<"A", ".">>, domain |-> "y.com"], FALSE, "email"),
     UserRegisterRequest(<<"b">>, [local |-> <<"a", "-">>, domain |-> "z.com"], FALSE, "email"),
     UserRegisterRequest(<<"c">>, [local |-> <<"a", "1">>, domain |-> "x.com"], FALSE, "email")}

NextScan ==
    \/ \E g \in Regs, request \in ScanRequests : RegStart(g, request)
    \/ \E g \in Regs : RegGetByEmail(g)
    \/ \E g \in Regs : RegScan(g)
    \/ \E g \in Regs : RegCreate(g)
    \/ \E g \in Regs : RegEnd(g)

\* The event loop resumes a coroutine whose awaited query has completed.
SpecScan ==
    Init /\ [][NextScan]_vars /\ \A g \in Regs : WF_vars(RegScan(g))

\* The registry: two accounts register with verified e-mail addresses, the
\* local part of the second holding a "/" (an address pydantic's EmailStr
\* accepts); the endpoints are called with keys of either and with
\* credentials that are none, while keys are deleted.
RegistryAccounts ==
    {<<<<"u">>, [local |-> <<"a">>, domain |-> "x.com"]>>,
     <<<<"a">>, [local |-> <<"a", "/", "b">>, domain |-> "x.com"]>>}

\* Form fields of create_golden_path
FormNames == {<<"c">>, <<"b", "/", "c">>}
FormVersions == {<<"1">>}
Contents == {<<"-", "-", "-", "x">>, <<"-", "-", "-", "y">>, <<"x">>}
\* Path parameters of delete_golden_path and fetch_golden_path ({namespace}
\* and {name} match one path segment) and their query parameter version
PathNamespaces == {<<"@", "a">>}
PathNames == {<<"c">>, <<"b">>}
QueryVersions == {<<"1">>, <<"c", "/", "1">>}

NextRegistry ==
    \/ \E a \in RegistryAccounts : Register(a[1], a[2], TRUE, "email")
    \/ \E r \in Reqs, dep \in Dependencies, h \in AuthHeaders : DependencyStart(r, dep, h)
    \/ \E r \in Reqs : VerifyScan(r)
    \/ \E r \in Reqs : VerifyCheck(r)
    \/ \E r \in Reqs : GetUser(r)
    \/ \E r \in Reqs : AuthEnd(r)
    \/ \E r \in Reqs, name \in FormNames, version \in FormVersions, content \in Contents,
          s3 \in S3Outcomes : CreateGoldenPath(r, name, version, content, s3)
    \/ \E r \in Reqs, namespace \in PathNamespaces, name \in PathNames,
          version \in QueryVersions, s3 \in S3Outcomes :
            DeleteGoldenPath(r, namespace, name, version, s3)
    \/ \E r \in Reqs, namespace \in PathNamespaces, name \in PathNames,
          version \in QueryVersions : FetchGoldenPath(r, namespace, name, version)
    \/ \E k \in KeyIds, u \in users : DeleteApiKey(k, u)

SpecRegistry == Init /\ [][NextRegistry]_vars

\* The entry points: both authentication functions are called with every
\* shape of Authorization header.  The tokens are a valid one, one that
\* declares the symmetric HS256 and whose signature verifies when the
\* published RS256 key is taken as the secret, and an unsigned one declaring
\* "none".  An account registers under the subject's e-mail address.
EntryTokens ==
    {GoodToken("k1", Some(Subject), Some(SubjectEmail)),
     Token(TRUE, Some("k1"), "HS256", "k1", TRUE, TRUE, FALSE,
           Some(Subject), Some(SubjectEmail)),
     Token(TRUE, Some("k1"), "none", "forged", TRUE, TRUE, FALSE,
           Some(Subject), Some(SubjectEmail))}

EntryHeaders ==
    {None, Header(TRUE, <<>>), Header(FALSE, <<>>), Header(FALSE, <<"Bearer">>)}
      \cup {Header(FALSE, <<w, t>>) : w \in Schemes, t \in EntryTokens}
      \cup {Header(FALSE, <<"Bearer", t, t>>) : t \in EntryTokens}

NextEntry ==
    \/ \E user_id \in UserIds : Register(user_id, SubjectEmail, TRUE, "email")
    \/ \E r \in Reqs, h \in AuthHeaders : AuthStart(r, h)
    \/ \E r \in Reqs : VerifyScan(r)
    \/ \E r \in Reqs : VerifyCheck(r)
    \/ \E r \in Reqs : GetUser(r)
    \/ \E r \in Reqs : AuthEnd(r)
    \/ \E h \in EntryHeaders : JwtArrive("j1", h)
    \/ JwtVerify("j1")
    \/ JwtLookup("j1")
    \/ JwtGetByEmail("j1")
    \/ JwtLink("j1")
    \/ JwtInsert("j1")
    \/ JwtEnd("j1")

SpecEntry == InitAccounts /\ [][NextEntry]_vars

\* ------------------------------------------------------------------ claims
\* s contains p as a contiguous substring
Contains(s, p) ==
    \E i \in 1..(Len(s) - Len(p) + 1) : SubSeq(s, i, i + Len(p) - 1) = p

Issued == 1..Len(plain)

\* verify_key returns to request r in this step
Returns(r) == req[r].pc = "check" /\ req'[r].pc # "check"

\* C1: a verify_key call with the plaintext of an issued key, made after the
\* key was issued and with no revoke, delete or expiry of it in between,
\* returns exactly that key's record, with is_active = true, whatever other
\* keys exist.
C1_VerifyAfterIssue ==
    [][\A r \in Reqs : \A k \in api_keys :
         (/\ Returns(r)
          /\ req[r].api_key = plain[k.key_id]
          /\ Scanned(k) \in req[r].keys
          /\ k.is_active
          /\ The(k.expires_at) >= now)
         => /\ req'[r].verified = "record"
            /\ The(req'[r].key_record).key_id = k.key_id
            /\ The(req'[r].key_record).is_active
            /\ req'[r].key_record \subseteq api_keys']_vars

\* C1 witness: a verification returned a key's record while another active
\* key exists.
C1_Witness ==
    \E r \in Reqs :
        /\ req[r].verified = "record"
        /\ req[r].api_key = plain[The(req[r].key_record).key_id]
        /\ \E other \in api_keys :
             other.is_active /\ other.key_id # The(req[r].key_record).key_id

\* The string-valued columns of a key row and of a user row
KeyStrings(k) == {k.key_prefix, k.name, k.user_id}
UserStrings(u) == {u.user_id, u.namespace, u.email.local}

\* Every string a response other than the issuing one can carry in this state
LaterResponseStrings ==
    UNION {
        UNION {UNION {KeyStrings(body.api_keys[i]) : i \in 1..body.total} :
                 body \in APIKeyListResponse(u)}
        \cup UNION {{body.user_id, body.namespace, body.email.local} \cup body.default_api_key :
                 body \in AlreadyRegisteredResponse(u)}
        : u \in users}
    \cup UNION {UNION {UserStrings(u) : u \in UNION {o.user : o \in req[r].out}} : r \in Reqs}
    \cup UNION {UNION {KeyStrings(k) : k \in req[r].key_record} : r \in Reqs}

\* C2: in every reachable state no persisted field of any row holds the
\* plaintext of an issued key (key_hash is its bcrypt digest, key_prefix a
\* truncation), and nothing that list, a repeated register, verification or
\* a profile read returns contains it.
C2_PlaintextNeverStored ==
    \A i \in Issued :
        /\ \A k \in api_keys : \A f \in KeyStrings(k) : ~Contains(f, plain[i])
        /\ \A k \in api_keys :
             k.key_id = i => /\ k.key_hash \in {hashpw(plain[i], salt) : salt \in Salts}
                             /\ Len(k.key_prefix) - 1 < Len(plain[i])
        /\ \A u \in users : \A f \in UserStrings(u) : ~Contains(f, plain[i])
        /\ \A f \in LaterResponseStrings : ~Contains(f, plain[i])

\* C2 witness: a key was issued, its owner registered again and got the
\* stored prefix back, and the key has been verified.
C2_Witness ==
    /\ resp.op = "register_user" /\ resp.status = 201 /\ resp.key_id = 0
    /\ \E u \in users :
         /\ u.user_id = resp.user_id
         /\ \E body \in AlreadyRegisteredResponse(u) : body.default_api_key # None
    /\ \E r \in Reqs : req[r].verified = "record"

\* C3: when deactivate returns true the key row is still there with
\* is_active = false; a revoked key is never active again; and every
\* verify_key that scans after the revocation, presenting that key's
\* plaintext, returns none.
C3_RevokedStaysRevoked ==
    /\ [](\A k \in api_keys : k.key_id \in revoked => ~k.is_active)
    /\ [][/\ \A i \in revoked' \ revoked :
               \E k \in api_keys' : k.key_id = i /\ ~k.is_active
          /\ \A r \in Reqs : \A i \in Issued :
               (Returns(r) /\ req[r].api_key = plain[i] /\ i \in req[r].seen_revoked)
               => req'[r].verified = "none"]_vars

\* C3 witness: a verification that scanned after the revocation of the key it
\* presents returned none, the revoked row being still in the table.
C3_Witness ==
    \E r \in Reqs : \E k \in api_keys :
        /\ req[r].verified = "none"
        /\ req[r].api_key = plain[k.key_id]
        /\ k.key_id \in req[r].seen_revoked
        /\ ~k.is_active

\* C4: verify_key with the plaintext of an expired key returns none and
\* writes nothing; last_used is never later than expires_at, so a key not
\* used before it expired keeps last_used = null.
C4_ExpiredNotTouched ==
    /\ [](\A k \in api_keys :
            k.last_used # None => The(k.last_used) <= The(k.expires_at))
    /\ [][\A r \in Reqs : \A k \in api_keys :
            (Returns(r) /\ req[r].api_key = plain[k.key_id] /\ The(k.expires_at) < now)
            => (req'[r].verified = "none" /\ api_keys' = api_keys)]_vars

\* C4 witness: an active, never used key was presented after it expired and
\* verify_key returned none.
C4_Witness ==
    \E r \in Reqs : \E k \in api_keys :
        /\ req[r].verified = "none"
        /\ req[r].api_key = plain[k.key_id]
        /\ Scanned(k) \in req[r].keys
        /\ k.is_active /\ The(k.expires_at) < now /\ k.last_used = None

\* key_id is not a key of user_id: it belongs to another account or to none
NotOwned(key_id, user_id) ==
    \A k \in api_keys : k.key_id = key_id => k.user_id # user_id

\* C5: deactivate and delete, called for a key the caller does not own or a
\* key that does not exist, return false and leave every key row as it was.
C5_ForeignKeyUntouched ==
    [][\A key_id \in KeyIds : \A user_id \in UserIds :
         /\ (Deactivate(key_id, user_id) /\ NotOwned(key_id, user_id))
            => (api_keys' = api_keys /\ resp'.returned = FALSE)
         /\ \A u \in users :
              (u.user_id = user_id /\ DeleteApiKey(key_id, u) /\ NotOwned(key_id, user_id))
              => (api_keys' = api_keys /\ resp'.returned = FALSE /\ resp'.status = 404)]_vars

\* C5 witness: deactivate was called by an account for an active key of
\* another account and returned false.
C5_Witness ==
    /\ resp.op = "deactivate" /\ resp.returned = FALSE
    /\ \E k \in api_keys :
         k.key_id = resp.key_id /\ k.user_id # resp.user_id /\ k.is_active

\* C6: verify_key never ends with the hashing library's error: a stored
\* digest bcrypt cannot parse counts as "does not match", so that verify_key
\* returns none or goes on to the next row.
C6_VerifyNeverRaises ==
    \A r \in Reqs : req[r].verified # "ValueError"

\* C7: a persistence failure while authenticating, on the API-key path or on
\* the token path, is never answered with the authentication rejection 401.
C7_PersistenceFailureNotRejection ==
    /\ \A r \in Reqs : req[r].fault = "persistence" => The(req[r].out).status # 401
    /\ \A j \in JReqs : jreq[j].fault = "persistence" => The(jreq[j].out).status # 401

\* C8: a token authentication whose key-set fetch failed or timed out ends
\* with 503, not with the 401 of a rejected credential.
C8_FetchFailureIsUnavailable ==
    \A j \in JReqs : jreq[j].fault = "provider" => The(jreq[j].out).status = 503

\* C9: of the callers that ask for the keys while the cache is cold, one
\* fetches; a caller that was waiting while that fetch ran never issues a
\* fetch of its own.
C9_SingleFlight == ~fetches.by_joiner

\* get_cognito_public_keys runs for request j in this step
Asks(j) == jreq[j].pc = "called" /\ jreq'[j].pc # "called"

\* C10: a failed fetch leaves the cache empty (the cache is only ever filled
\* by a successful fetch), a call that finds the cache empty issues a fetch,
\* and a fetch is only ever issued by a caller asking for the keys.
C10_FailureNotCached ==
    /\ [](_cognito_keys_cache # None => fetches.last = "ok")
    /\ [][/\ (fetches'.issued > fetches.issued /\ fetches'.last # "ok")
             => _cognito_keys_cache' = None
          /\ \A j \in JReqs :
               (/\ Asks(j)
                /\ ~Missing(jreq[j].authorization)
                /\ ~Malformed(The(jreq[j].authorization).parts)
                /\ _cognito_keys_cache = None)
               => fetches'.issued = fetches.issued + 1
          /\ fetches'.issued > fetches.issued => \E j \in JReqs : Asks(j)]_vars

\* C10 witness: a fetch failed, the next call fetched again and succeeded.
C10_Witness ==
    /\ fetches.issued >= 2
    /\ fetches.last = "ok"
    /\ _cognito_keys_cache # None

\* The token request j presents (its header is well formed)
Presented(j) == The(jreq[j].authorization).parts[2]

\* Provisioning (the INSERT or the linking UPDATE) ends for request j in this step
Provisions(j) == jreq[j].pc \in {"insert", "link"} /\ jreq'[j].pc = "done"

\* C11: when the key identifier of a token is absent from the cached key set,
\* the verifier refetches the key set exactly once, and accepts the token if
\* the refetched set holds the key that signed it.
C11_RefetchOnUnknownKid ==
    [][\A j \in JReqs :
         (/\ Asks(j)
          /\ ~Missing(jreq[j].authorization)
          /\ ~Malformed(The(jreq[j].authorization).parts)
          /\ _cognito_keys_cache # None
          /\ Presented(j).wellformed
          /\ Presented(j).kid # None
          /\ The(Presented(j).kid) \notin The(_cognito_keys_cache))
         => /\ fetches'.issued = fetches.issued + 1
            /\ (/\ fetches'.last = "ok"
                /\ The(Presented(j).kid) \in jwks
                /\ Decode(Presented(j), The(Presented(j).kid)) = "claims"
                /\ Presented(j).username # None)
               => jreq'[j].pc = "lookup"]_vars

\* C12: concurrent first logins of one new subject leave exactly one account
\* row for its e-mail address and its user_id: no two rows ever share either,
\* and when a provisioning call ends there is one row with that address, one
\* with that user_id, and they are the same row.
C12_OneRowPerSubject ==
    /\ [](\A u1, u2 \in users :
            (u1.email = u2.email \/ u1.user_id = u2.user_id) => u1 = u2)
    /\ [][\A j \in JReqs :
            Provisions(j)
            => /\ Cardinality({u \in users' : u.email = jreq[j].email}) = 1
               /\ {u \in users' : u.email = jreq[j].email}
                    = {u \in users' : u.user_id = jreq[j].cognito_username}]_vars

\* C12 witness: two first logins of the subject ran concurrently, one created
\* the account, the other lost the race, and the table holds one row.
C12_Witness ==
    \E j1, j2 \in JReqs :
        /\ j1 # j2
        /\ jreq[j1].pc = "done" /\ The(jreq[j1].out).status = 200
        /\ jreq[j2].pc = "done" /\ The(jreq[j2].out).status = 401
        /\ jreq[j2].cognito_username = Subject
        /\ Cardinality(users) = 1

\* C13: a provisioning or linking write that loses a uniqueness race is
\* retried as a lookup, so every provisioning call ends authenticated as the
\* account of its subject.
C13_LostRaceRetried ==
    [][\A j \in JReqs :
         Provisions(j)
         => /\ The(jreq'[j].out).status = 200
            /\ The(jreq'[j].out).user
                 = {u \in users' : u.user_id = jreq[j].cognito_username}]_vars

\* C16: an account created by token provisioning gets the namespace
\* registration would give it: the cleaned local part of its e-mail address,
\* with the first free numeric suffix when that name is taken, so that the
\* creation succeeds.
C16_ProvisionedNamespace ==
    [][\A j \in JReqs :
         (jreq[j].pc = "insert" /\ jreq'[j].pc = "done")
         => LET base_namespace == generate_namespace_from_email(jreq[j].email)
            IN  /\ The(jreq'[j].out).status = 200
                /\ \E u \in users' \ users :
                     u.namespace = UniqueNamespace(base_namespace, base_namespace, 1)]_vars

\* C14: when no account has the subject as user_id and an account with the
\* token's e-mail address exists, provisioning links: that row gets
\* user_id = subject and email_verified = true, keeps its e-mail address and
\* namespace, no row is added or removed, and the linked account is returned.
C14_LinkByEmail ==
    [][\A j \in JReqs :
         (/\ jreq[j].pc = "link" /\ jreq'[j].pc = "done"
          /\ get_by_id(jreq[j].cognito_username) = None
          /\ get_by_email(jreq[j].email) # None)
         => \E old \in get_by_email(jreq[j].email) :
              \E u \in users' :
                /\ u = [old EXCEPT !.user_id = jreq[j].cognito_username,
                                   !.email_verified = TRUE]
                /\ users' \ {u} = users \ {old}
                /\ Cardinality(users') = Cardinality(users)
                /\ jreq'[j].out = Some(Out(200, "", {u}))]_vars

\* C15: no two account rows share an e-mail address or a namespace; no row
\* disappears; and the user_id of an account (the row with a given e-mail
\* address) changes only in a linking step.
C15_UniqueAccounts ==
    /\ [](\A u1, u2 \in users :
            (u1.email = u2.email \/ u1.namespace = u2.namespace) => u1 = u2)
    /\ [][/\ \A u \in users : \E v \in users' : v.email = u.email
          /\ \A u \in users : \A v \in users' :
               (v.email = u.email /\ v.user_id # u.user_id)
               => \E j \in JReqs : JwtLink(j)]_vars

\* C15 witness: an account was linked to the subject and had its profile
\* updated, while a registration lost a race and ended with an error.
C15_Witness ==
    /\ \E u \in users :
         /\ u.user_id = Subject /\ u.auth_provider = "email"
         /\ u.email_verified /\ u.name # None
    /\ \E g \in Regs : reg[g].pc = "done" /\ The(reg[g].out).status = 500

\* The n-th name of the sequence base, base1, base2, ...
Candidate(base_namespace, n) ==
    IF n = 0 THEN base_namespace ELSE base_namespace \o IntToStr(n)

Occupied(namespace) == \E u \in users : u.namespace = namespace

\* C17: the namespace a registration creates its account with is the first
\* unused name of the sequence base, base1, base2, ..., base being the
\* cleaned local part of the e-mail address; it is a function of the e-mail
\* address and of the occupied namespaces.
C17_FirstUnusedNamespace ==
    [][\A g \in Regs :
         (reg[g].pc = "create" /\ reg'[g].pc # "create" /\ users' # users)
         => LET base_namespace == generate_namespace_from_email(The(reg[g].request).email)
            IN  \E u \in users' \ users :
                  \E n \in 0..Cardinality(users) :
                    /\ u.namespace = Candidate(base_namespace, n)
                    /\ ~Occupied(Candidate(base_namespace, n))
                    /\ \A m \in 0..(n - 1) : Occupied(Candidate(base_namespace, m))]_vars

\* C17 witness: three accounts whose e-mail addresses clean to the same local
\* part hold the namespaces @a, @a1 and @a2.
C17_Witness ==
    \E u0, u1, u2 \in users :
        /\ u0.namespace = <<"@", "a">>
        /\ u1.namespace = <<"@", "a", "1">>
        /\ u2.namespace = <<"@", "a", "2">>
        /\ \A u \in {u0, u1, u2} : generate_namespace_from_email(u.email) = <<"@", "a">>

\* C18: the namespace scan of a registration terminates: it runs at most
\* once more than there are occupied namespaces (every pass that stays in the
\* loop advances the counter), it leaves the loop eventually, and the
\* namespace it leaves with was unused when it ended.
C18_ScanTerminates ==
    /\ \A g \in Regs : (reg[g].pc = "scan") ~> (reg[g].pc = "create")
    /\ [](\A g \in Regs : reg[g].pc = "scan" => reg[g].counter <= Cardinality(users) + 1)
    /\ [][\A g \in Regs :
            /\ (reg[g].pc = "scan" /\ reg'[g].pc = "scan" /\ reg'[g] # reg[g])
               => reg'[g].counter = reg[g].counter + 1
            /\ (reg[g].pc = "scan" /\ reg'[g].pc = "create")
               => \A u \in users : u.namespace # reg'[g].namespace]_vars

\* C18 witness: a scan ended after two occupied candidates, with the third.
C18_Witness ==
    \E g \in Regs :
        /\ reg[g].pc = "create"
        /\ reg[g].counter = 3
        /\ reg[g].namespace = <<"@", "a", "2">>
        /\ \A u \in users : u.namespace # reg[g].namespace

\* C19: a key issued without a ttl gets expires_at = null and never expires.
\* No caller of APIKeyRepository.create passes expires_days, so every key of
\* the model is issued without a ttl.
C19_NoTtlNoExpiry ==
    \A k \in api_keys : k.expires_at = None

\* The answer of API-key authentication to a key it does not accept
InvalidOrInactive == Some(Out(401, "Invalid or inactive API key", None))

\* The issued keys whose plaintext request r presents
PresentedKeys(r) == {i \in Issued : plain[i] = req[r].api_key}

\* C20: API-key authentication answers a never-issued key, a key revoked
\* before the scan, a key deleted before the scan and an expired key with the
\* same status and the same detail.
C20_SameRejection ==
    [][\A r \in Reqs :
         (/\ Returns(r)
          /\ \/ PresentedKeys(r) = {}
             \/ \E i \in PresentedKeys(r) : i \in req[r].seen_revoked
             \/ \E i \in PresentedKeys(r) : \A k \in req[r].keys : k.key_id # i
             \/ \E i \in PresentedKeys(r) : \E k \in req[r].keys :
                  k.key_id = i /\ The(k.expires_at) < now)
         => req'[r].out = InvalidOrInactive]_vars

\* C20 witness: a key that was issued, never revoked, and deleted before the
\* scan was presented and got the answer every key that is not accepted gets.
C20_Witness ==
    \E r \in Reqs :
        /\ req[r].out = InvalidOrInactive
        /\ \E i \in PresentedKeys(r) :
             /\ i \notin revoked
             /\ \A k \in req[r].keys : k.key_id # i
             /\ \A k \in api_keys : k.key_id # i

\* C21: optional_verify_api_key never propagates a failure: whatever goes
\* wrong while authenticating (a missing or malformed header, a key that is
\* unknown, expired or revoked, a missing owner, any other failure), it
\* returns none.
C21_OptionalNeverPropagates ==
    \A r \in Reqs :
        (req[r].pc = "done" /\ req[r].dep = "optional_verify_api_key")
        => /\ optional_verify_api_key(req[r]).raises = 0
           /\ (req[r].out # None /\ The(req[r].out).status # 200)
              => optional_verify_api_key(req[r]).namespace = None

\* A header value that is the scheme Bearer, in any letter case, and one
\* token, separated by whitespace
BearerToken(authorization) ==
    /\ authorization # None
    /\ ~The(authorization).empty
    /\ Len(The(authorization).parts) = 2
    /\ The(authorization).parts[1] \in {"Bearer", "bearer"}

MissingHeader == Some(Out(401, "Missing Authorization header", None))
MalformedHeader == Some(Out(401, "Invalid Authorization header format", None))

\* C22 as stated: both entry points answer an absent header with the
\* missing-header error and every header value that is not Bearer followed by
\* one token with the malformed-header error; only a well-formed header
\* reaches credential verification.
C22_HeaderChecksAsStated ==
    [][/\ \A r \in Reqs : \A h \in AuthHeaders :
            AuthStart(r, h)
            => IF h = None THEN req'[r].out = MissingHeader
               ELSE IF ~BearerToken(h) THEN req'[r].out = MalformedHeader
               ELSE req'[r].pc = "scan"
       /\ \A j \in JReqs :
            Asks(j)
            => IF jreq[j].authorization = None THEN jreq'[j].out = MissingHeader
               ELSE IF ~BearerToken(jreq[j].authorization)
                    THEN jreq'[j].out = MalformedHeader
               ELSE jreq'[j].out \notin {MissingHeader, MalformedHeader}]_vars

\* C22, amended: both entry points answer an absent header and an empty
\* header value with the missing-header error, and every other header value
\* that is not Bearer (in any letter case) followed by one token with the
\* malformed-header error; only a well-formed header reaches credential
\* verification.
C22_HeaderChecks ==
    /\ [](\A j \in JReqs :
            jreq[j].pc \in {"lookup", "provision", "link", "insert"}
            => BearerToken(jreq[j].authorization))
    /\ [][/\ \A r \in Reqs : \A h \in AuthHeaders :
               AuthStart(r, h)
               => IF h = None \/ The(h).empty
                  THEN req'[r].pc = "done" /\ req'[r].out = MissingHeader
                  ELSE IF ~BearerToken(h)
                  THEN req'[r].pc = "done" /\ req'[r].out = MalformedHeader
                  ELSE req'[r].pc = "scan" /\ req'[r].api_key = The(h).parts[2]
          /\ \A j \in JReqs :
               Asks(j)
               => IF jreq[j].authorization = None \/ The(jreq[j].authorization).empty
                  THEN jreq'[j].pc = "done" /\ jreq'[j].out = MissingHeader
                  ELSE IF ~BearerToken(jreq[j].authorization)
                  THEN jreq'[j].pc = "done" /\ jreq'[j].out = MalformedHeader
                  ELSE jreq'[j].out \notin {MissingHeader, MalformedHeader}]_vars

\* C22 witness: the token entry point answered an empty header value with
\* the missing-header error while the API-key entry point, given a
\* well-formed header, has gone on to verify the credential.
C22_Witness ==
    /\ jreq["j1"].pc = "done"
    /\ jreq["j1"].authorization = Header(TRUE, <<>>)
    /\ jreq["j1"].out = MissingHeader
    /\ req["r1"].pc = "check"

\* C23: the token verifier accepts only tokens that declare RS256; a token
\* declaring another algorithm, "none" included, is rejected, and no account
\* is looked up, created or linked for it.
C23_OnlyRS256 ==
    /\ [](\A j \in JReqs :
            jreq[j].pc \in {"lookup", "provision", "link", "insert"}
            => Presented(j).alg = "RS256")
    /\ [](\A j \in JReqs :
            (/\ jreq[j].pc = "done"
             /\ BearerToken(jreq[j].authorization)
             /\ Presented(j).alg # "RS256")
            => The(jreq[j].out).status = 401 /\ The(jreq[j].out).user = None)
    /\ [][\A j \in JReqs :
            (Asks(j) /\ BearerToken(jreq[j].authorization) /\ Presented(j).alg # "RS256")
            => jreq'[j].pc = "done" /\ users' = users]_vars

\* C23 witness: a token declaring HS256, whose key identifier is in the
\* cached key set and whose signature verifies under that key, was rejected.
C23_Witness ==
    \E j \in JReqs :
        /\ jreq[j].pc = "done"
        /\ BearerToken(jreq[j].authorization)
        /\ Presented(j).alg = "HS256"
        /\ Presented(j).signed_by = The(Presented(j).kid)
        /\ The(Presented(j).kid) \in The(_cognito_keys_cache)
        /\ The(jreq[j].out).status = 401

\* The key rows of an account
OwnedKeys(user_id) == {k \in api_keys : k.user_id = user_id}

\* C24: the listing of an account holds exactly the keys the account owns,
\* active and revoked alike, each once, newest first by creation time, and no
\* entry of it has the key's hash.
C24_ListNewestFirst ==
    \A u \in users :
        /\ APIKeyListResponse(u) # {}
        /\ \A body \in APIKeyListResponse(u) :
             /\ body.total = Cardinality(OwnedKeys(u.user_id))
             /\ {body.api_keys[i].key_id : i \in 1..body.total}
                  = {k.key_id : k \in OwnedKeys(u.user_id)}
             /\ \A i \in 1..body.total :
                  /\ \E k \in OwnedKeys(u.user_id) :
                       \A f \in DOMAIN body.api_keys[i] : body.api_keys[i][f] = k[f]
                  /\ "key_hash" \notin DOMAIN body.api_keys[i]
             /\ \A i, j \in 1..body.total :
                  i < j => body.api_keys[i].created_at >= body.api_keys[j].created_at

\* C24 witness: an account that owns a revoked key and a newer active one
\* asked for its listing.
C24_Witness ==
    /\ resp.op = "list_api_keys"
    /\ \E old, new \in OwnedKeys(resp.user_id) :
         /\ ~old.is_active /\ new.is_active
         /\ old.created_at < new.created_at

\* C25: API keys are created only on explicit request or on first
\* registration with a verified e-mail address: a registration that creates
\* an account issues exactly one default key when email_verified is true and
\* none when it is false, and an explicit key-creation request of an account
\* whose address is not verified is refused (403) with no key created.
C25_KeysOnlyWhenVerified ==
    [][/\ \A k \in api_keys' :
            k.key_id \notin {x.key_id : x \in api_keys}
            => \/ \E g \in Regs :
                    /\ reg[g].pc = "key" /\ reg'[g].pc = "done"
                    /\ The(reg[g].request).email_verified
                    /\ k.user_id = The(reg[g].request).user_id
               \/ \E u \in users, n \in KeyNames :
                    u.email_verified /\ CreateApiKey(u, n, Some(<<"read", "write">>))
       /\ \A g \in Regs :
            /\ (reg[g].pc = "create" /\ reg'[g].pc = "done" /\ users' # users)
               => /\ ~The(reg[g].request).email_verified
                  /\ api_keys' = api_keys
                  /\ OwnedKeys(The(reg[g].request).user_id) = {}
            /\ (reg[g].pc = "key" /\ reg'[g].pc = "done")
               => /\ Cardinality(api_keys' \ api_keys) = 1
                  /\ Cardinality({k \in api_keys' :
                                    k.user_id = The(reg[g].request).user_id}) = 1
       /\ \A u \in users, n \in KeyNames :
            (~u.email_verified /\ CreateApiKey(u, n, Some(<<"read", "write">>)))
            => api_keys' = api_keys /\ resp'.status = 403]_vars

\* C26: under any interleaving of verify_key with a deactivate or delete of
\* the key it is presented with, verify_key returns the record only if the
\* key is present and active when it returns; once the revocation or the
\* deletion has committed, a verification still in progress returns none: it
\* neither authenticates with that key nor ends with an error.
C26_VerifyVsRevoke ==
    [][\A r \in Reqs :
         Returns(r)
         => /\ req'[r].verified = "record"
               => \E k \in api_keys' : /\ k.key_id = The(req'[r].key_record).key_id
                                        /\ k.is_active
            /\ \A i \in PresentedKeys(r) :
                 (i \in revoked \/ \A k \in api_keys : k.key_id # i)
                 => req'[r].verified = "none"]_vars

\* C27: linking keeps key ownership intact: the user_id of every API-key row
\* names an existing account, and when create_from_cognito has rewritten the
\* user_id of an account, the keys issued to that account before are still
\* there, unchanged but for their user_id, which names the linked account
\* (linking an account that owns keys succeeds).
C27_LinkKeepsKeys ==
    /\ [](\A k \in api_keys : \E u \in users : u.user_id = k.user_id)
    /\ [][\A j \in JReqs :
            (jreq[j].pc = "link" /\ jreq'[j].pc = "done")
            => \A old \in get_by_email(jreq[j].email) :
                 /\ \E u \in users' : /\ u.email = old.email
                                      /\ u.user_id = jreq[j].cognito_username
                 /\ The(jreq'[j].out).status = 200
                 /\ \A k \in OwnedKeys(old.user_id) :
                      [k EXCEPT !.user_id = jreq[j].cognito_username] \in api_keys']_vars

\* The account request r authenticated as
Caller(r) == The(The(req[r].out).user)

\* An endpoint behind verify_api_key serves request r in this step
Serves(r) ==
    /\ req[r].pc = "done" /\ req[r].dep = "verify_api_key"
    /\ verify_api_key(req[r]).raises = 0
    /\ req'[r].pc = "idle"
    /\ resp'.op \in {"create_golden_path", "delete_golden_path"}

\* C28: registry objects are changed only by the owner of their namespace:
\* create_golden_path writes under the namespace of the account that owns the
\* presented key, every object an endpoint replaces or removes was stored
\* under the caller's namespace, and delete_golden_path for a path whose
\* namespace is not the caller's answers 403 and leaves the registry as it
\* was.
C28_OwnerOnly ==
    [][/\ bucket' # bucket => \E r \in Reqs : Serves(r)
       /\ \A r \in Reqs :
            Serves(r)
            => /\ Caller(r).user_id = The(req[r].key_record).user_id
               /\ plain[The(req[r].key_record).key_id] = req[r].api_key
               /\ \A o \in bucket' \ bucket :
                    /\ o.Metadata.namespace = Caller(r).namespace
                    /\ o.Key = s3_key(Caller(r).namespace, o.Metadata.name,
                                      o.Metadata.version)
               /\ \A o \in bucket \ bucket' :
                    o.Metadata.namespace = Caller(r).namespace
               /\ \A namespace \in PathNamespaces, name \in PathNames,
                     version \in QueryVersions, s3 \in S3Outcomes :
                    (/\ DeleteGoldenPath(r, namespace, name, version, s3)
                     /\ namespace # Caller(r).namespace)
                    => resp'.status = 403 /\ bucket' = bucket]_vars

\* C29: register_user is idempotent per user_id and rejects foreign e-mail
\* addresses without effect: called with a user_id that exists it creates no
\* account and no key and returns the existing account, so that a second
\* identical registration leaves the state of the first; called with a new
\* user_id whose address belongs to an account it fails with 400 and changes
\* no row.
C29_RegisterIdempotent ==
    [][/\ \A g \in Regs, request \in AccountRequests :
            (RegStart(g, request) /\ \E u \in users : u.user_id = request.user_id)
            => /\ users' = users /\ api_keys' = api_keys /\ plain' = plain
               /\ reg'[g].pc = "done"
               /\ reg'[g].out = Some(Out(201, "User already registered",
                                         {u \in users : u.user_id = request.user_id}))
       /\ \A g \in Regs :
            (/\ reg[g].pc = "email" /\ reg'[g].pc # "email"
             /\ \E u \in users : u.email = The(reg[g].request).email)
            => /\ users' = users /\ api_keys' = api_keys /\ plain' = plain
               /\ reg'[g].pc = "done"
               /\ The(reg'[g].out).status = 400
               /\ The(reg'[g].out).user = None]_vars

\* C29 witness: with an account registered and holding its default key, a
\* second registration under its user_id got the account back and a
\* registration of another user_id under its e-mail address got 400.
C29_Witness ==
    \E g1, g2 \in Regs :
        /\ reg[g1].pc = "done"
        /\ The(reg[g1].out).detail = "User already registered"
        /\ \E u \in The(reg[g1].out).user :
             /\ u \in users
             /\ u.user_id = The(reg[g1].request).user_id
             /\ OwnedKeys(u.user_id) # {}
        /\ reg[g2].pc = "done"
        /\ The(reg[g2].out).status = 400
        /\ \E u \in users : /\ u.email = The(reg[g2].request).email
                            /\ u.user_id # The(reg[g2].request).user_id

====
